---- MODULE Spec2Model ----
(***************************************************************************)
(* Model of conf_check.py: a DNS check and an HTTP check over WEB_HOSTS,   *)
(* the batch `checks`, the reporting in `main`, and the Chromecast alert   *)
(* path (server_up, audio_play, server_down) with the module-level HTTP    *)
(* server and its background thread.                                       *)
(*                                                                         *)
(* The main thread is a sequential process whose position is `pc`; every   *)
(* action is one step of it between two calls to the outside world (a DNS  *)
(* query, an HTTP GET, a cli command, the speaker, the server thread).     *)
(* The background thread running server.serve_forever is a second process. *)
(***************************************************************************)
EXTENDS Integers, Sequences, FiniteSets

\* Longest host list explored (WEB_HOSTS itself has two entries).
MaxHosts == 2

VARIABLES
    args,           \* parse_arguments(): [chromecast, syslog]
    WEB_HOSTS,      \* the host list handed to dns_check and web_check
    pc,             \* position of the main thread
    i,              \* index of the url the running for-loop is at
    dnsCalls,       \* resolver.query calls made: <<[url, out]>>
    webCalls,       \* requests.get calls made: <<[url, out]>>
    dnsRet,         \* what dns_check returned: "none", "True", "False"
    webRet,         \* what web_check returned: "none", "True", "False"
    checksOutcome,  \* how checks() ended: "none", "returned", or the exception
    exc,            \* the exception that left main(), "none" if none
    stdout,         \* lines printed
    syslogSink,     \* lines handed to cli('send log ...')
    events,         \* calls made on the alert path, in order
    socket,         \* listening socket of `server`: "bound" or "closed"
    thread,         \* `thread`: "new", "started", "serving", "finished", "killed"
    shutdown_request, \* server.__shutdown_request
    is_shut_down      \* server.__is_shut_down (an Event)

vars == <<args, WEB_HOSTS, pc, i, dnsCalls, webCalls, dnsRet, webRet,
          checksOutcome, exc, stdout, syslogSink, events, socket, thread,
          shutdown_request, is_shut_down>>

checkVars == <<dnsCalls, webCalls, dnsRet, webRet, checksOutcome>>
serverVars == <<socket, thread, shutdown_request, is_shut_down>>

----------------------------------------------------------------------------
\* Outcomes of the outside world.

\* resolver.query(domain, 'A'): an answer, or one of the resolver's exceptions.
DnsOutcomes == {"answer", "NXDOMAIN", "NoAnswer", "Timeout"}

\* Final status codes a GET may come back with (redirects already followed).
StatusCodes == {101, 200, 204, 304, 399, 400, 404, 500, 599, 600}

\* requests.get(url, timeout): a response, or an exception of requests.
WebOutcomes ==
    [kind : {"response"}, status : StatusCodes]
    \cup [kind : {"ConnectionError", "Timeout", "TooManyRedirects"}, status : {0}]

\* cli("show ip int bri gi2"): free text holding a dotted quad, or none.
CliOutcomes == {"address", "noaddress"}

\* pychromecast.Chromecast(CASTIPADDR) and mc.play_media(url, 'audio/mp3').
CastOutcomes == {"played", "ChromecastConnectionError"}

----------------------------------------------------------------------------
\* Helpers translated from the source.

\* A printed or logged line: its fixed text, the url formatted in (0: none),
\* and the exception detail formatted in ("" : none).
Line(text, url, detail) == [text |-> text, url |-> url, detail |-> detail]

send_syslog(sink, message) == Append(sink, message)

\* `if syslog: send_syslog(message)`
if_syslog_always(flag, sink, message) == send_syslog(sink, message)
if_syslog(flag, sink, message) ==
    IF flag THEN send_syslog(sink, message) ELSE sink

\* `except:` of dns_check: the bare clause catches whatever query raises.
resolver_raises_lenient(out) == out \in {"NXDOMAIN", "Timeout"}
resolver_raises(out) == out # "answer"

\* response.raise_for_status(): HTTPError for 4xx and 5xx only.
raise_for_status_5xx(status) == 500 <= status /\ status < 600
raise_for_status_only200(status) == status # 200
raise_for_status(status) == 400 <= status /\ status < 600

\* The exception the try body of web_check ends with, "none" if it completes.
web_try(out) ==
    IF out.kind = "response"
    THEN IF raise_for_status(out.status) THEN "HTTPError" ELSE "none"
    ELSE out.kind

\* `except requests.exceptions.RequestException`: the classes it catches.
RequestException_narrow == {"HTTPError"}
RequestException ==
    {"HTTPError", "ConnectionError", "Timeout", "TooManyRedirects"}

\* `assert x` raises AssertionError iff x is false.
assert_raises_never(value) == FALSE
assert_raises(value) == ~value

\* `except AssertionError` of main.
main_catches(e) == e = "AssertionError"

\* `if args.chromecast:` of main.
alert_enabled_always(a) == TRUE
alert_enabled_never(a) == FALSE
alert_enabled(a) == a.chromecast

\* The statement main's handler runs first once the alert is enabled.
alert_first_step_audio == "audio_play"
alert_first_step == "server_up"

\* The statement that follows server_up() in main.
after_server_up == "audio_play"

\* The statement that follows audio_play() in main.
after_audio_play == "server_down"

----------------------------------------------------------------------------
\* State after the module has been loaded and the arguments parsed: HTTPServer's
\* constructor has bound and activated the socket, the thread object exists
\* and has not been started.
Init ==
    /\ args \in [chromecast : BOOLEAN, syslog : BOOLEAN]
    /\ \E n \in 0..MaxHosts : WEB_HOSTS = [k \in 1..n |-> k]
    /\ pc = "dns_check"
    /\ i = 1
    /\ dnsCalls = <<>>
    /\ webCalls = <<>>
    /\ dnsRet = "none"
    /\ webRet = "none"
    /\ checksOutcome = "none"
    /\ exc = "none"
    /\ stdout = <<>>
    /\ syslogSink = <<>>
    /\ events = <<>>
    /\ socket = "bound"
    /\ thread = "new"
    /\ shutdown_request = FALSE
    /\ is_shut_down = FALSE

----------------------------------------------------------------------------
\* checks() and main()'s try statement around it.

\* An exception e leaves checks(): main's handler takes it, or it leaves main.
LeaveChecks(e) ==
    /\ checksOutcome' = e
    /\ IF main_catches(e)
       THEN pc' = "except" /\ exc' = "none"
       ELSE pc' = "crashed" /\ exc' = e

\* `assert dns_check(WEB_HOSTS, syslog=syslog)` once dns_check returned ret.
ChecksAfterDns(ret) ==
    IF assert_raises(ret)
    THEN LeaveChecks("AssertionError") /\ i' = i
    ELSE pc' = "web_check" /\ i' = 1 /\ UNCHANGED <<checksOutcome, exc>>

\* `assert web_check(WEB_HOSTS, syslog=syslog)` once web_check returned ret;
\* checks() then returns and main's try statement completes.
ChecksAfterWeb(ret) ==
    IF assert_raises(ret)
    THEN LeaveChecks("AssertionError")
    ELSE pc' = "done" /\ checksOutcome' = "returned" /\ UNCHANGED exc

\* One iteration of `for url in urls` in dns_check.
dns_check_iter ==
    /\ pc = "dns_check"
    /\ i <= Len(WEB_HOSTS)
    /\ \E out \in DnsOutcomes :
        LET url == WEB_HOSTS[i] IN
        /\ dnsCalls' = Append(dnsCalls, [url |-> url, out |-> out])
        /\ IF ~resolver_raises(out)
           THEN /\ stdout' = Append(stdout,
                        Line("DNS check for url ... passed!", url, ""))
                /\ i' = i + 1
                /\ UNCHANGED <<syslogSink, dnsRet, checksOutcome, pc, exc>>
           ELSE /\ stdout' = Append(stdout,
                        Line("DNS check for url ... failed", url, ""))
                /\ syslogSink' = if_syslog(args.syslog, syslogSink,
                        Line("DNS check for url ... failed", url, ""))
                /\ dnsRet' = "False"
                /\ ChecksAfterDns(FALSE)
    /\ UNCHANGED <<args, WEB_HOSTS, webCalls, webRet, events>>
    /\ UNCHANGED serverVars

\* The `else` of the for-loop in dns_check: every url was resolved.
dns_check_else ==
    /\ pc = "dns_check"
    /\ i > Len(WEB_HOSTS)
    /\ stdout' = Append(stdout,
            Line("All dns checks passed successfully!", 0, ""))
    /\ syslogSink' = if_syslog(args.syslog, syslogSink,
            Line("All dns checks passed successfully!", 0, ""))
    /\ dnsRet' = "True"
    /\ ChecksAfterDns(TRUE)
    /\ UNCHANGED <<args, WEB_HOSTS, dnsCalls, webCalls, webRet, events>>
    /\ UNCHANGED serverVars

\* One iteration of `for url in urls` in web_check.
web_check_iter ==
    /\ pc = "web_check"
    /\ i <= Len(WEB_HOSTS)
    /\ \E out \in WebOutcomes :
        LET url == WEB_HOSTS[i]
            e == web_try(out)
        IN
        /\ webCalls' = Append(webCalls, [url |-> url, out |-> out])
        /\ IF e = "none"
           THEN /\ stdout' = Append(stdout,
                        Line("Web check for url ... passed!", url, ""))
                /\ i' = i + 1
                /\ UNCHANGED <<syslogSink, webRet, checksOutcome, pc, exc>>
           ELSE IF e \in RequestException
           THEN /\ stdout' = Append(stdout,
                        Line("Web check for url ... failed: ", url, e))
                /\ syslogSink' = if_syslog(args.syslog, syslogSink,
                        Line("Web check for url ... failed due to ", url, e))
                /\ webRet' = "False"
                /\ ChecksAfterWeb(FALSE)
                /\ i' = i
           ELSE /\ LeaveChecks(e)
                /\ i' = i
                /\ UNCHANGED <<stdout, syslogSink, webRet>>
    /\ UNCHANGED <<args, WEB_HOSTS, dnsCalls, dnsRet, events>>
    /\ UNCHANGED serverVars

\* The `else` of the for-loop in web_check: every url answered.
web_check_else ==
    /\ pc = "web_check"
    /\ i > Len(WEB_HOSTS)
    /\ stdout' = Append(stdout,
            Line("All web checks passed successfully!", 0, ""))
    /\ syslogSink' = if_syslog(args.syslog, syslogSink,
            Line("All web checks passed successfully!", 0, ""))
    /\ webRet' = "True"
    /\ ChecksAfterWeb(TRUE)
    /\ UNCHANGED <<args, WEB_HOSTS, i, dnsCalls, webCalls, dnsRet, events>>
    /\ UNCHANGED serverVars

\* The `except AssertionError` handler of main, up to `if args.chromecast`.
main_except ==
    /\ pc = "except"
    /\ stdout' = Append(stdout, Line("Network Error!", 0, ""))
    /\ syslogSink' = if_syslog(args.syslog, syslogSink,
            Line("Network Error!", 0, ""))
    /\ pc' = IF alert_enabled(args) THEN alert_first_step ELSE "done"
    /\ UNCHANGED <<args, WEB_HOSTS, i, exc, events>>
    /\ UNCHANGED checkVars
    /\ UNCHANGED serverVars

----------------------------------------------------------------------------
\* The alert path.

\* server_up(): thread.start(), then the print.
server_up ==
    /\ pc = "server_up"
    /\ thread = "new"
    /\ thread' = "started"
    /\ events' = Append(events, "thread.start")
    /\ stdout' = Append(stdout, Line("starting server on port", 0, ""))
    /\ pc' = after_server_up
    /\ UNCHANGED <<args, WEB_HOSTS, i, exc, syslogSink, socket,
                   shutdown_request, is_shut_down>>
    /\ UNCHANGED checkVars

\* audio_play(), first half: the cli command, the address taken from its
\* output ([0] of an empty findall raises IndexError), the url built.
audio_play_cli ==
    /\ pc = "audio_play"
    /\ \E out \in CliOutcomes :
        IF out = "address"
        THEN /\ events' = events \o <<"cli show ip", "url">>
             /\ pc' = "play_media"
             /\ UNCHANGED exc
        ELSE /\ events' = Append(events, "cli show ip")
             /\ pc' = "crashed"
             /\ exc' = "IndexError"
    /\ UNCHANGED <<args, WEB_HOSTS, i, stdout, syslogSink>>
    /\ UNCHANGED checkVars
    /\ UNCHANGED serverVars

\* audio_play(), second half: the play command sent to the speaker; when it
\* raises, the exception leaves audio_play and main.
audio_play_cast ==
    /\ pc = "play_media"
    /\ events' = Append(events, "play_media")
    /\ \E out \in CastOutcomes :
        IF out = "played"
        THEN pc' = after_audio_play /\ UNCHANGED exc
        ELSE pc' = "crashed" /\ exc' = out
    /\ UNCHANGED <<args, WEB_HOSTS, i, stdout, syslogSink>>
    /\ UNCHANGED checkVars
    /\ UNCHANGED serverVars

\* server_down(), first half: server.shutdown() asks the loop to stop ...
server_down_request ==
    /\ pc = "server_down"
    /\ shutdown_request' = TRUE
    /\ events' = Append(events, "server.shutdown")
    /\ pc' = "server_down_wait"
    /\ UNCHANGED <<args, WEB_HOSTS, i, exc, stdout, syslogSink, socket,
                   thread, is_shut_down>>
    /\ UNCHANGED checkVars

\* ... and returns once the loop has stopped; then the print.
server_down_return ==
    /\ pc = "server_down_wait"
    /\ is_shut_down
    /\ stdout' = Append(stdout, Line("stopping server on port", 0, ""))
    /\ pc' = "done"
    /\ UNCHANGED <<args, WEB_HOSTS, i, exc, syslogSink, events>>
    /\ UNCHANGED checkVars
    /\ UNCHANGED serverVars

\* The background thread enters server.serve_forever.
serve_forever_enter ==
    /\ thread = "started"
    /\ pc # "exited"
    /\ thread' = "serving"
    /\ is_shut_down' = FALSE
    /\ UNCHANGED <<args, WEB_HOSTS, pc, i, exc, stdout, syslogSink, events,
                   socket, shutdown_request>>
    /\ UNCHANGED checkVars

\* The serve_forever loop sees the shutdown request and ends; so does the thread.
serve_forever_exit ==
    /\ thread = "serving"
    /\ shutdown_request
    /\ shutdown_request' = FALSE
    /\ is_shut_down' = TRUE
    /\ thread' = "finished"
    /\ UNCHANGED <<args, WEB_HOSTS, pc, i, exc, stdout, syslogSink, events,
                   socket>>
    /\ UNCHANGED checkVars

\* main() has returned or an exception has left it: the process ends, the
\* daemon thread dies with it and the socket is closed by the system.
process_exit ==
    /\ pc \in {"done", "crashed"}
    /\ pc' = "exited"
    /\ socket' = "closed"
    /\ thread' = IF thread \in {"started", "serving"} THEN "killed" ELSE thread
    /\ UNCHANGED <<args, WEB_HOSTS, i, exc, stdout, syslogSink, events,
                   shutdown_request, is_shut_down>>
    /\ UNCHANGED checkVars

Next ==
    \/ dns_check_iter
    \/ dns_check_else
    \/ web_check_iter
    \/ web_check_else
    \/ main_except
    \/ server_up
    \/ audio_play_cli
    \/ audio_play_cast
    \/ server_down_request
    \/ server_down_return
    \/ serve_forever_enter
    \/ serve_forever_exit
    \/ process_exit

Spec == Init /\ [][Next]_vars

----------------------------------------------------------------------------
\* Vocabulary of the properties.

\* How many lines of s carry the text t.
Count(s, t) == Cardinality({j \in DOMAIN s : s[j].text = t})

\* The main thread has left checks().
ChecksOver == pc \notin {"dns_check", "web_check"}

\* main() is over: it returned, or an exception left it.
MainOver == pc \in {"done", "crashed", "exited"}

BatchPassed == checksOutcome = "returned"
BatchFailed == checksOutcome = "AssertionError"

Is2xx(out) == out.kind = "response" /\ 200 <= out.status /\ out.status < 300
IsErrorStatus(out) ==
    out.kind = "response" /\ 400 <= out.status /\ out.status < 600

\* The probe's own verdict: the resolver answered / the GET came back with a
\* response whose status is no 4xx or 5xx.
DnsProbeOk(out) == out = "answer"
WebProbeOk(out) == out.kind = "response" /\ ~IsErrorStatus(out)

\* web_check printed the per-host pass line for url.
WebPassLine(url) ==
    \E j \in DOMAIN stdout :
        stdout[j] = Line("Web check for url ... passed!", url, "")

\* The alert dispatcher has started.
AlertStarted == events # <<>>

\* The steps of the alert path in the order main and audio_play issue them.
AlertOrder ==
    <<"thread.start", "cli show ip", "url", "play_media", "server.shutdown">>

IsPrefix(s, t) == Len(s) <= Len(t) /\ \A k \in 1..Len(s) : s[k] = t[k]

Before(a, b) ==
    \A j, k \in DOMAIN events : (events[j] = a /\ events[k] = b) => j < k

Occurred(a) == \E j \in DOMAIN events : events[j] = a

----------------------------------------------------------------------------
\* C1: the batch passes iff dns_check and web_check both pass; when dns_check
\* fails the batch fails and web_check is never run (no GET is made); when
\* dns_check passes and web_check fails the batch fails.
C1_BatchIffBoth ==
    /\ BatchPassed <=> (dnsRet = "True" /\ webRet = "True")
    /\ dnsRet = "False" =>
            BatchFailed /\ webCalls = <<>> /\ webRet = "none"
    /\ (dnsRet = "True" /\ webRet = "False") => BatchFailed
    /\ ChecksOver => (BatchPassed \/ BatchFailed)

C1_Witness ==
    /\ dnsRet = "True" /\ webRet = "False" /\ BatchFailed
    /\ Len(dnsCalls) = Len(WEB_HOSTS) /\ Len(WEB_HOSTS) >= 2

\* C2: dns_check and web_check probe the hosts in list order, each once at
\* most, return fail at the first failing probe with no probe after it, and
\* return pass only when every host was probed and passed: the probes made
\* are the hosts up to the first failing one, or all of them.
ShortCircuit(calls, ret, ok) ==
    /\ Len(calls) <= Len(WEB_HOSTS)
    /\ \A k \in 1..Len(calls) : calls[k].url = WEB_HOSTS[k]
    /\ \A k \in 1..Len(calls) : ~ok[k] => k = Len(calls)
    /\ ret = "False" <=> (calls # <<>> /\ ~ok[Len(calls)])
    /\ ret = "True" =>
            /\ Len(calls) = Len(WEB_HOSTS)
            /\ \A k \in 1..Len(calls) : ok[k]

C2_ShortCircuit ==
    /\ ShortCircuit(dnsCalls, dnsRet,
            [k \in DOMAIN dnsCalls |-> DnsProbeOk(dnsCalls[k].out)])
    /\ ShortCircuit(webCalls, webRet,
            [k \in DOMAIN webCalls |-> WebProbeOk(webCalls[k].out)])

C2_Witness ==
    /\ dnsRet = "False"
    /\ Len(dnsCalls) >= 1
    /\ Len(dnsCalls) < Len(WEB_HOSTS)

\* C3 as stated: a host passes the HTTP check iff its GET returns a 2xx
\* response; every other outcome fails the host and the batch.
C3_Only2xxPasses ==
    \A k \in 1..Len(webCalls) :
        IF Is2xx(webCalls[k].out)
        THEN WebPassLine(webCalls[k].url)
        ELSE /\ ~WebPassLine(webCalls[k].url)
             /\ webRet = "False"
             /\ BatchFailed

\* C3 amended: a host passes the HTTP check iff its GET returns a response
\* whose status is not a 4xx or 5xx one; every transport error, every timeout
\* and every 4xx or 5xx status fails the host and the batch.
C3_NonErrorStatusPasses ==
    \A k \in 1..Len(webCalls) :
        IF WebProbeOk(webCalls[k].out)
        THEN /\ WebPassLine(webCalls[k].url)
             /\ (k = Len(webCalls) => webRet # "False")
        ELSE /\ ~WebPassLine(webCalls[k].url)
             /\ k = Len(webCalls)
             /\ webRet = "False"
             /\ BatchFailed

C3_Witness ==
    /\ Len(webCalls) = 2
    /\ webCalls[1].out.kind = "response" /\ webCalls[1].out.status = 304
    /\ webCalls[2].out.kind = "Timeout"
    /\ webRet = "False" /\ BatchFailed

\* C4: once the play command has been issued, whether it succeeds or raises,
\* the server was started before it and is stopped after it: when main is
\* over the server has been shut down, in the order start, play, stop.
C4_StartPlayStop ==
    Occurred("play_media") =>
        /\ Occurred("thread.start")
        /\ Before("thread.start", "play_media")
        /\ Before("play_media", "server.shutdown")
        /\ MainOver => (Occurred("server.shutdown") /\ thread = "finished")

\* C5: with --syslog, a failing check sends exactly one failure line of its
\* kind to the log sink (and a check that did not fail sends none); without
\* --syslog nothing at all is sent to the log sink.
C5_SyslogLines ==
    /\ ~args.syslog => syslogSink = <<>>
    /\ args.syslog =>
        /\ Count(syslogSink, "DNS check for url ... failed")
                = (IF dnsRet = "False" THEN 1 ELSE 0)
        /\ Count(syslogSink, "Web check for url ... failed due to ")
                = (IF webRet = "False" THEN 1 ELSE 0)

C5_Witness ==
    /\ args.syslog
    /\ webRet = "False"
    /\ pc = "exited"
    /\ Count(syslogSink, "Web check for url ... failed due to ") = 1

\* C6: main runs the alert dispatcher iff the batch failed and --chromecast
\* is set; the failure message is printed (and logged iff --syslog) before
\* the dispatcher starts; a passing batch reports no failure and dispatches
\* no alert.
C6_AlertIffFailedAndFlag ==
    /\ AlertStarted => (BatchFailed /\ args.chromecast)
    /\ (MainOver /\ BatchFailed /\ args.chromecast) => AlertStarted
    /\ (AlertStarted \/ pc \in {"server_up", "audio_play"}) =>
        /\ Count(stdout, "Network Error!") = 1
        /\ Count(syslogSink, "Network Error!") = (IF args.syslog THEN 1 ELSE 0)
    /\ BatchPassed =>
        /\ Count(stdout, "Network Error!") = 0
        /\ Count(syslogSink, "Network Error!") = 0
        /\ ~AlertStarted
        /\ thread = "new"

C6_Witness ==
    /\ args.chromecast /\ ~args.syslog
    /\ BatchFailed
    /\ Occurred("thread.start")
    /\ Count(stdout, "Network Error!") = 1

\* C7: for a non-empty host list whose hosts all resolve and all answer 2xx,
\* the batch passes and the output is one pass line per host then one "all
\* passed" line, for DNS and then for HTTP.
AllResolveAnd2xx ==
    /\ Len(dnsCalls) = Len(WEB_HOSTS)
    /\ Len(webCalls) = Len(WEB_HOSTS)
    /\ \A k \in DOMAIN dnsCalls : dnsCalls[k].out = "answer"
    /\ \A k \in DOMAIN webCalls : Is2xx(webCalls[k].out)

AllPassedOutput ==
    [k \in 1..Len(WEB_HOSTS) |->
        Line("DNS check for url ... passed!", WEB_HOSTS[k], "")]
    \o <<Line("All dns checks passed successfully!", 0, "")>>
    \o [k \in 1..Len(WEB_HOSTS) |->
        Line("Web check for url ... passed!", WEB_HOSTS[k], "")]
    \o <<Line("All web checks passed successfully!", 0, "")>>

C7_AllPassLines ==
    (Len(WEB_HOSTS) >= 1 /\ AllResolveAnd2xx /\ ChecksOver) =>
        /\ BatchPassed
        /\ stdout = AllPassedOutput
        /\ Count(stdout, "All dns checks passed successfully!") = 1
        /\ Count(stdout, "All web checks passed successfully!") = 1

C7_Witness ==
    /\ Len(WEB_HOSTS) >= 2
    /\ AllResolveAnd2xx
    /\ \E k \in DOMAIN webCalls : webCalls[k].out.status = 204
    /\ BatchPassed

\* C8 as stated: on a failing probe no exception leaves the check runner
\* (dns_check, web_check, checks) towards main.
C8_NoExceptionLeavesChecks ==
    checksOutcome \in {"none", "returned"}

\* C8 amended: dns_check and web_check capture every failing probe as the
\* return value False; checks() turns that False into an AssertionError, the
\* only exception that crosses from the check runner to main, and main
\* catches it: no check failure leaves main as an exception.
C8_OnlyAssertionErrorLeavesChecks ==
    /\ checksOutcome \in {"none", "returned", "AssertionError"}
    /\ BatchFailed <=> (dnsRet = "False" \/ webRet = "False")
    /\ (\E k \in DOMAIN dnsCalls : ~DnsProbeOk(dnsCalls[k].out))
            => dnsRet = "False"
    /\ (\E k \in DOMAIN webCalls : ~WebProbeOk(webCalls[k].out))
            => webRet = "False"
    /\ exc # "none" => AlertStarted

C8_Witness ==
    /\ webCalls # <<>>
    /\ webCalls[Len(webCalls)].out.kind = "ConnectionError"
    /\ webRet = "False"
    /\ BatchFailed
    /\ pc = "exited" /\ exc = "none"

\* C9 as stated: the address is discovered first and only then is the server
\* started; the discovery is never issued after the server start.
C9_DiscoverBeforeServerStart ==
    /\ Occurred("thread.start") => Occurred("cli show ip")
    /\ Before("cli show ip", "thread.start")

\* C9 amended: the dispatch starts the server first, then discovers the
\* address, builds the url, sends the play command and stops the server; the
\* steps made so far are always a prefix of that order.
C9_AlertStepsInOrder ==
    /\ IsPrefix(events, AlertOrder)
    /\ Before("thread.start", "cli show ip")
    /\ Occurred("cli show ip") => Occurred("thread.start")

C9_Witness == events = AlertOrder

AlertPcs ==
    {"server_up", "audio_play", "play_media", "server_down", "server_down_wait"}

\* C10 as stated: the listener is bound only during the dispatch step, and a
\* run without alert binds no listener and starts no server thread.
C10_ListenerOnlyDuringDispatch ==
    /\ socket = "bound" => pc \in AlertPcs
    /\ (MainOver /\ ~AlertStarted) => thread = "new"

\* C10 amended: the listener is bound when the module is loaded, in every
\* run, and stays bound until the process exits; the background server
\* thread is what belongs to the dispatch: it is started by the dispatch
\* step only, and never in a run where no alert is dispatched.
C10_ListenerBoundForWholeRun ==
    /\ socket = "bound" <=> pc # "exited"
    /\ thread # "new" =>
            /\ Occurred("thread.start")
            /\ BatchFailed /\ args.chromecast
    /\ (BatchPassed \/ ~args.chromecast) => thread = "new"
    /\ thread \in {"started", "serving"} => pc \in AlertPcs \cup {"crashed"}

C10_Witness ==
    /\ pc = "done"
    /\ BatchPassed
    /\ args.chromecast
    /\ socket = "bound"
    /\ thread = "new"

====
